---- MODULE Spec2Model ----
(***************************************************************************)
(* The resumable batch article extraction of the interactive tool          *)
(* (firecrawl_cli.py, search_web, processing mode 3) as a state machine.   *)
(*                                                                         *)
(* One query is followed over several runs and several processes.  The    *)
(* disk (the progress file of the query and the Markdown output files)     *)
(* survives a process; everything else is lost when the process exits.     *)
(*                                                                         *)
(* Control is followed statement by statement where a SIGINT can make a    *)
(* difference: CPython runs a signal handler between two bytecodes of the  *)
(* main thread, and an exception the handler raises (sys.exit raises       *)
(* SystemExit) surfaces at the interrupted statement.  A bare "except:"    *)
(* encloses four of those statements (load of the progress file, the body  *)
(* of save_progress, os.remove of the progress file, the date parsing of   *)
(* the local extraction), and a bare except catches SystemExit and         *)
(* KeyboardInterrupt alike.                                                *)
(*                                                                         *)
(* Assumed of the environment: writing and removing the progress file      *)
(* succeed (the code ignores their failure), and the file is not changed   *)
(* by anything but this program.                                           *)
(***************************************************************************)
EXTENDS Integers, Sequences, FiniteSets, TLC

\* ---- bounds of the model ------------------------------------------------
NumItems == 7          \* length of the result list of the query
MaxRuns == 2           \* batch runs started, over all processes
MaxFaults == 1         \* fetches that raise and saves that fail, over all runs

\* ---- program constants --------------------------------------------------
SaveEvery == 5         \* "if saved_count % 5 == 0: save_progress()"

Items == 1..NumItems
EmptyUrl == 0          \* result.get('url', '') == ''
Urls == 1..(NumItems - 2)   \* the non-empty URLs of the list

\* The result list followed: the second result has no URL, the last result
\* repeats the URL of the first, the others have URLs of their own.
ResultList ==
    [k \in Items |-> IF k = 2 THEN EmptyUrl
                     ELSE IF k = 1 \/ k = NumItems THEN 1
                     ELSE k - 1]

\* "results = client.search(query, ...)": index -> URL
results == ResultList

VARIABLES
    progress_file,       \* disk: search_results/.progress_<query>.json
    out_files,           \* disk: indexes whose Markdown file has been written
    pc,                  \* position of the process
    i,                   \* index of "for i, result in enumerate(results, 1)"
    processed_urls,      \* local of search_web
    saved_count,         \* local of search_web
    extracted_articles,  \* local of search_web (indexes appended)
    failed_urls,         \* local of search_web (indexes appended)
    ret,                 \* where the running save_progress() returns to
    handler,             \* SIGINT disposition of the process
    h_closure,           \* cells a handler left by a finished batch still sees
    runs,                \* batch runs started so far
    faults,              \* fetches raised and saves failed so far
    loaded,              \* history: processed set this run took from the file
    fetched,             \* history: indexes whose fetch returned, this run
    written,             \* history: indexes whose file was written, this run
    marked,              \* history: indexes the success branch marked, this run
    fetch_failed,        \* history: indexes whose fetch raised, this run
    fetched_before,      \* history: indexes fetched by the runs of this batch
    reported_ok,         \* history: URLs appended to extracted_articles
    reported_failed,     \* history: URLs appended to failed_urls
    sig_in_loop,         \* history: this run's handle_interrupt has been called
    sig_at_load,         \* history: a SIGINT came while this run loaded
    exit_status,         \* exit status of the process, -1 while it runs
    raised,              \* what ended the process: the exception at the top
    \* -- a call of FirecrawlClient.提取文章信息 (firecrawl_client.py) --
    has_client,          \* self._client is set (an API key was given)
    use_local,           \* parameter 使用本地提取
    local_available,     \* LOCAL_EXTRACT_AVAILABLE
    xpc,                 \* position of the call
    hosted_requests,     \* extract requests sent to the hosted API
    hosted_reply,        \* how the hosted attempt ended
    local_runs,          \* entries of _本地提取文章信息
    retry_count,         \* local of the download loop
    responses,           \* history: what each requests.get of the loop met
    slept,               \* seconds of time.sleep in the download loop
    via,                 \* the path the outcome of the call comes from
    \* -- a call of FirecrawlClient._免费搜索 (firecrawl_client.py) --
    query,               \* parameter 查询, a sequence of code points
    limit,               \* parameter 结果数量
    ddg_available,       \* DDG_AVAILABLE
    spc,                 \* position of the call
    search_retries,      \* local retry_count of the search loop
    raw_results,         \* local raw_results
    attempts,            \* history: calls of ddgs.text made
    last_attempt,        \* history: how the previous attempt ended
    region,              \* local region
    found,               \* the list returned
    \* -- one file-name fragment built by firecrawl_cli.py --
    given,               \* the title or query, a sequence of code points
    site,                \* the place that built the fragment
    fragment,            \* safe_title / safe_query
    \* -- one feature of the menu of firecrawl_cli.py, from choice to menu --
    api_key,             \* os.environ["FIRECRAWL_API_KEY"]: "unset", "set"
                         \* (a key the hosted API accepts) or "invalid"
    cpc,                 \* position of the interactive tool
    feature,             \* the feature chosen at the menu
    outcome,             \* how the feature ended
    message,             \* the error the feature printed
    requests_sent,       \* requests of the feature's hosted-only call
    error_text,          \* str(e) of the exception the hosted scrape raised
    \* -- the publish time of _本地提取文章信息 (firecrawl_client.py) --
    time_tags,           \* per selector: the time strings of its tags, in page order
    tpc,                 \* where the extraction of the time stands
    publish_time         \* local publish_time

batch_vars == << progress_file, out_files, pc, i, processed_urls,
                 saved_count, extracted_articles, failed_urls, ret, handler,
                 h_closure, runs, faults, loaded, fetched, written, marked,
                 fetch_failed, fetched_before, reported_ok, reported_failed,
                 sig_in_loop, sig_at_load, exit_status, raised >>

extract_vars == << has_client, use_local, local_available, xpc,
                   hosted_requests, hosted_reply, local_runs, retry_count,
                   responses, slept, via >>

search_vars == << query, limit, ddg_available, spc, search_retries,
                  raw_results, attempts, last_attempt, region, found >>

name_vars == << given, site, fragment >>

cli_vars == << api_key, cpc, feature, outcome, message, requests_sent,
               error_text >>

\* the state of the client library, which the batch model leaves alone
time_vars == << time_tags, tpc, publish_time >>

client == << extract_vars, search_vars, name_vars, cli_vars, time_vars >>

vars == << batch_vars, client >>

\* what a call of 提取文章信息 leaves alone
not_extract == << batch_vars, search_vars, name_vars, cli_vars, time_vars >>

\* what a call of _免费搜索 leaves alone
not_search == << batch_vars, extract_vars, name_vars, cli_vars, time_vars >>

\* what the building of a file name leaves alone
not_name == << batch_vars, extract_vars, search_vars, cli_vars, time_vars >>

\* what a feature of the menu leaves alone, its client call apart
not_cli == << batch_vars, search_vars, name_vars, time_vars >>

disk == << progress_file, out_files >>
locals == << i, processed_urls, saved_count, extracted_articles, failed_urls,
             ret >>
run_history == << loaded, fetched, written, marked, fetch_failed >>
budget == << runs, faults >>
proc == << handler, h_closure >>
epoch_history == << fetched_before, reported_ok, reported_failed >>
signals == << sig_in_loop, sig_at_load >>
at_exit == << exit_status, raised >>

NoFile == [exists |-> FALSE, processed_urls |-> {}, saved_count |-> 0]
Checkpoint(p, n) == [exists |-> TRUE, processed_urls |-> p, saved_count |-> n]

NoClosure == [processed_urls |-> {}, saved_count |-> 0]

\* no call of 提取文章信息 is followed
ExtractIdle ==
    /\ has_client = FALSE
    /\ use_local = FALSE
    /\ local_available = TRUE
    /\ xpc = "idle"
    /\ hosted_requests = 0
    /\ hosted_reply = "none"
    /\ local_runs = 0
    /\ retry_count = 0
    /\ responses = << >>
    /\ slept = 0
    /\ via = "none"

SearchIdle ==
    /\ query = << >>
    /\ limit = 0
    /\ ddg_available = TRUE
    /\ spc = "idle"
    /\ search_retries = 0
    /\ raw_results = << >>
    /\ attempts = 0
    /\ last_attempt = "none"
    /\ region = "none"
    /\ found = << >>

NameIdle ==
    /\ given = << >>
    /\ site = "none"
    /\ fragment = << >>

CliIdle ==
    /\ api_key = "unset"
    /\ cpc = "idle"
    /\ feature = "none"
    /\ outcome = "none"
    /\ message = "none"
    /\ requests_sent = 0
    /\ error_text = << >>

TimeIdle ==
    /\ time_tags = << >>
    /\ tpc = "idle"
    /\ publish_time = << >>

ClientIdle == ExtractIdle /\ SearchIdle /\ NameIdle /\ CliIdle /\ TimeIdle

\* the tool is started: the main menu is shown
BatchInit ==
    /\ progress_file = NoFile
    /\ out_files = {}
    /\ pc = "menu"
    /\ i = 0
    /\ processed_urls = {}
    /\ saved_count = 0
    /\ extracted_articles = {}
    /\ failed_urls = {}
    /\ ret = "none"
    /\ handler = "default"
    /\ h_closure = NoClosure
    /\ runs = 0
    /\ faults = 0
    /\ loaded = {}
    /\ fetched = {}
    /\ written = {}
    /\ marked = {}
    /\ fetch_failed = {}
    /\ fetched_before = {}
    /\ reported_ok = {}
    /\ reported_failed = {}
    /\ sig_in_loop = FALSE
    /\ sig_at_load = FALSE
    /\ exit_status = -1
    /\ raised = "none"

Init == BatchInit /\ ClientIdle

\* ---- pure pieces of the loop --------------------------------------------

\* "if not url: continue"
NoUrl(url) == url = EmptyUrl

\* the skip test left out: no URL is ever taken as processed
NeverProcessed(url, processed) == FALSE

\* "if url in processed_urls: ... continue"
AlreadyProcessed(url, processed) == url \in processed

\* the periodic save left out
NeverDue(count) == FALSE

\* "if saved_count % 5 == 0: save_progress()"
ProgressDue(count) == count % SaveEvery = 0

\* progress_data of save_progress, as json.load gives it back
ProgressData(processed, count) == Checkpoint(processed, count)

\* the state a handle_interrupt closure flushes: the cells of the batch that
\* registered it
ClosureCells ==
    IF handler = "current"
    THEN [processed_urls |-> processed_urls, saved_count |-> saved_count]
    ELSE h_closure

\* the statements enclosed by a bare "except:"
InBareExcept == pc \in {"load_try", "fetch_dp", "sp_try", "del_try"}

\* statements between signal.signal(...) and the return of search_web
InBatch == pc \in {"loop", "fetch_dp", "written", "marked",
                   "sp_try", "del_check", "del_try", "summary"}

\* ---- the process ends ---------------------------------------------------
ClearRunHistory ==
    /\ loaded' = {}
    /\ fetched' = {}
    /\ written' = {}
    /\ marked' = {}
    /\ fetch_failed' = {}

\* a batch starts with no progress file: the histories kept over its runs
\* start afresh
ClearEpochHistory ==
    /\ fetched_before' = {}
    /\ reported_ok' = {}
    /\ reported_failed' = {}

ClearLocals ==
    /\ i' = 0
    /\ processed_urls' = {}
    /\ saved_count' = 0
    /\ extracted_articles' = {}
    /\ failed_urls' = {}
    /\ ret' = "none"

\* the __main__ guard: "except KeyboardInterrupt: ... sys.exit(0)" and
\* "except Exception: ... traceback.print_exc(); sys.exit(1)"
ExitsZero(exc) == 0
TopLevelExit(exc) == IF exc = "KeyboardInterrupt" THEN 0 ELSE 1

ProcessEnds(status) ==
    /\ pc' = "exited"
    /\ exit_status' = status
    /\ ClearLocals
    /\ ClearRunHistory
    /\ handler' = "default"
    /\ h_closure' = NoClosure

\* a new process of the tool is started; the disk is what the last one left
StartProcess ==
    /\ pc = "exited"
    /\ runs < MaxRuns
    /\ pc' = "menu"
    /\ sig_in_loop' = FALSE
    /\ sig_at_load' = FALSE
    /\ exit_status' = -1
    /\ raised' = "none"
    /\ UNCHANGED << disk, locals, proc, budget, run_history, epoch_history >>
    /\ UNCHANGED client

\* menu choice "0": the loop of main breaks and the interpreter exits
QuitMenu ==
    /\ pc = "menu"
    /\ ProcessEnds(0)
    /\ raised' = "none"
    /\ UNCHANGED << disk, budget, epoch_history, signals >>
    /\ UNCHANGED client

\* an exception no feature catches reaches the __main__ guard, e.g. the
\* ValueError of int(...) on the result count typed at the prompt
UnexpectedException ==
    /\ pc = "menu"
    /\ ProcessEnds(TopLevelExit("Exception"))
    /\ raised' = "Exception"
    /\ UNCHANGED << disk, budget, epoch_history, signals >>
    /\ UNCHANGED client

\* menu choice "4", mode "3", the same query: the locals are initialised and
\* the existence of the progress file is tested
StartBatch ==
    /\ pc = "menu"
    /\ runs < MaxRuns
    /\ runs' = runs + 1
    /\ ClearLocals
    /\ ClearRunHistory
    /\ sig_in_loop' = FALSE
    /\ sig_at_load' = FALSE
    /\ IF progress_file.exists
       THEN /\ pc' = "load_try"
            /\ UNCHANGED epoch_history
       ELSE /\ pc' = "register"
            /\ ClearEpochHistory
    /\ UNCHANGED << disk, proc, faults, at_exit >>
    /\ UNCHANGED client

\* json.load of the progress file
LoadProgress ==
    /\ pc = "load_try"
    /\ processed_urls' = progress_file.processed_urls
    /\ saved_count' = progress_file.saved_count
    /\ loaded' = progress_file.processed_urls
    /\ pc' = "register"
    /\ UNCHANGED << disk, i, extracted_articles, failed_urls, ret, proc,
                    budget, fetched, written, marked, fetch_failed,
                    epoch_history, signals, at_exit >>
    /\ UNCHANGED client

\* signal.signal(signal.SIGINT, handle_interrupt); the loop starts
RegisterHandler ==
    /\ pc = "register"
    /\ handler' = "current"
    /\ h_closure' = NoClosure
    /\ i' = 1
    /\ pc' = "loop"
    /\ UNCHANGED << disk, processed_urls, saved_count, extracted_articles,
                    failed_urls, ret, budget, run_history, epoch_history,
                    signals, at_exit >>
    /\ UNCHANGED client

\* the tests at the head of an iteration:
\* "if not url: continue" and "if url in processed_urls: ... continue"
Skipped(k) ==
    NoUrl(results[k]) \/ AlreadyProcessed(results[k], processed_urls)

\* pc = "loop" with i <= NumItems and ~Skipped(i): the item has passed the
\* tests of the head and the main thread is inside the fetch of its URL
Fetching == pc = "loop" /\ i <= NumItems /\ ~Skipped(i)

\* an item without URL, or whose URL is in processed_urls, is passed over
SkipItem ==
    /\ pc = "loop"
    /\ i <= NumItems
    /\ Skipped(i)
    /\ i' = i + 1
    /\ UNCHANGED << disk, pc, processed_urls, saved_count, extracted_articles,
                    failed_urls, ret, proc, budget, run_history,
                    epoch_history, signals, at_exit >>
    /\ UNCHANGED client

\* the list is exhausted: the final save_progress() is entered
FinishLoop ==
    /\ pc = "loop"
    /\ i > NumItems
    /\ pc' = "sp_try"
    /\ ret' = "del_check"
    /\ UNCHANGED << disk, i, processed_urls, saved_count, extracted_articles,
                    failed_urls, proc, budget, run_history, epoch_history,
                    signals, at_exit >>
    /\ UNCHANGED client

\* the fetch reaches the date parsing of the local extraction
ParseDate ==
    /\ Fetching
    /\ pc' = "fetch_dp"
    /\ UNCHANGED << disk, locals, proc, budget, run_history, epoch_history,
                    signals, at_exit >>
    /\ UNCHANGED client

\* a failed fetch that is counted as a saved item
FetchRaisesCounted ==
    /\ Fetching
    /\ faults < MaxFaults
    /\ faults' = faults + 1
    /\ failed_urls' = failed_urls \cup {i}
    /\ processed_urls' = processed_urls \cup {results[i]}
    /\ saved_count' = saved_count + 1
    /\ fetch_failed' = fetch_failed \cup {i}
    /\ reported_failed' = reported_failed \cup {results[i]}
    /\ pc' = "sp_try"
    /\ ret' = "loop"
    /\ UNCHANGED << disk, i, extracted_articles, proc, runs,
                    loaded, fetched, written, marked, fetched_before,
                    reported_ok, signals, at_exit >>
    /\ UNCHANGED client

\* the fetch raises and "except Exception as e" of the loop catches it:
\* failed_urls.append(...); processed_urls.add(url); save_progress() is entered
FetchRaises ==
    /\ Fetching
    /\ faults < MaxFaults
    /\ faults' = faults + 1
    /\ failed_urls' = failed_urls \cup {i}
    /\ processed_urls' = processed_urls \cup {results[i]}
    /\ fetch_failed' = fetch_failed \cup {i}
    /\ reported_failed' = reported_failed \cup {results[i]}
    /\ pc' = "sp_try"
    /\ ret' = "loop"
    /\ UNCHANGED << disk, i, saved_count, extracted_articles, proc, runs,
                    loaded, fetched, written, marked, fetched_before,
                    reported_ok, signals, at_exit >>
    /\ UNCHANGED client

\* the success branch taken although save_article has written nothing
MarkWithoutFile ==
    /\ Fetching \/ pc = "fetch_dp"
    /\ fetched' = fetched \cup {i}
    /\ fetched_before' = fetched_before \cup {i}
    /\ written' = written \cup {i}
    /\ pc' = "written"
    /\ UNCHANGED << disk, locals, proc, budget, loaded, marked, fetch_failed,
                    reported_ok, reported_failed, signals, at_exit >>
    /\ UNCHANGED client

\* a file name that carries the number of the run instead of the index alone
StampedFileName ==
    /\ Fetching \/ pc = "fetch_dp"
    /\ fetched' = fetched \cup {i}
    /\ fetched_before' = fetched_before \cup {i}
    /\ out_files' = out_files \cup {i + NumItems * (runs - 1)}
    /\ written' = written \cup {i + NumItems * (runs - 1)}
    /\ pc' = "written"
    /\ UNCHANGED << progress_file, locals, proc, budget, loaded, marked,
                    fetch_failed, reported_ok, reported_failed, signals,
                    at_exit >>
    /\ UNCHANGED client

\* the fetch returns an article and save_article writes the Markdown file,
\* returning (True, filename).  (A SIGINT between the return of the fetch and
\* the write leaves the disk as a SIGINT inside the fetch does.)
SaveArticleOk ==
    /\ Fetching \/ pc = "fetch_dp"
    /\ fetched' = fetched \cup {i}
    /\ fetched_before' = fetched_before \cup {i}
    /\ out_files' = out_files \cup {i}
    /\ written' = written \cup {i}
    /\ pc' = "written"
    /\ UNCHANGED << progress_file, locals, proc, budget, loaded, marked,
                    fetch_failed, reported_ok, reported_failed, signals,
                    at_exit >>
    /\ UNCHANGED client

\* a save failure that is not contained: it leaves the loop for the
\* "except Exception" around the whole search and the menu comes back
SaveFailureAborts ==
    /\ Fetching \/ pc = "fetch_dp"
    /\ faults < MaxFaults
    /\ faults' = faults + 1
    /\ fetched' = fetched \cup {i}
    /\ fetched_before' = fetched_before \cup {i}
    /\ reported_failed' = reported_failed \cup {results[i]}
    /\ pc' = "menu"
    /\ UNCHANGED << disk, locals, proc, runs, loaded, written, marked,
                    fetch_failed, reported_ok, signals, at_exit >>
    /\ UNCHANGED client

\* the fetch returns an article and save_article returns (False, error): the
\* failure is listed, the URL is not marked, the loop goes on
SaveArticleFails ==
    /\ Fetching \/ pc = "fetch_dp"
    /\ faults < MaxFaults
    /\ faults' = faults + 1
    /\ fetched' = fetched \cup {i}
    /\ fetched_before' = fetched_before \cup {i}
    /\ failed_urls' = failed_urls \cup {i}
    /\ reported_failed' = reported_failed \cup {results[i]}
    /\ i' = i + 1
    /\ pc' = "loop"
    /\ UNCHANGED << disk, processed_urls, saved_count, extracted_articles,
                    ret, proc, runs, loaded, written, marked, fetch_failed,
                    reported_ok, signals, at_exit >>
    /\ UNCHANGED client

\* extracted_articles.append(...); processed_urls.add(url)
MarkSaved ==
    /\ pc = "written"
    /\ extracted_articles' = extracted_articles \cup {i}
    /\ processed_urls' = processed_urls \cup {results[i]}
    /\ marked' = marked \cup {i}
    /\ reported_ok' = reported_ok \cup {results[i]}
    /\ pc' = "marked"
    /\ UNCHANGED << disk, i, saved_count, failed_urls, ret, proc, budget,
                    loaded, fetched, written, fetch_failed, fetched_before,
                    reported_failed, signals, at_exit >>
    /\ UNCHANGED client

\* saved_count += 1, and save_progress() is entered at every fifth
CountSaved ==
    /\ pc = "marked"
    /\ saved_count' = saved_count + 1
    /\ IF ProgressDue(saved_count + 1)
       THEN /\ pc' = "sp_try"
            /\ ret' = "loop"
            /\ UNCHANGED i
       ELSE /\ pc' = "loop"
            /\ i' = i + 1
            /\ UNCHANGED ret
    /\ UNCHANGED << disk, processed_urls, extracted_articles, failed_urls,
                    proc, budget, run_history, epoch_history, signals,
                    at_exit >>
    /\ UNCHANGED client

\* save_progress returns to the statement after its call
ReturnFromSaveProgress ==
    /\ pc' = ret
    /\ ret' = "none"
    /\ i' = IF ret = "loop" THEN i + 1 ELSE i

\* the body of save_progress: the progress file is written
SaveProgress ==
    /\ pc = "sp_try"
    /\ progress_file' = ProgressData(processed_urls, saved_count)
    /\ ReturnFromSaveProgress
    /\ UNCHANGED << out_files, processed_urls, saved_count,
                    extracted_articles, failed_urls, proc, budget, run_history,
                    epoch_history, signals, at_exit >>
    /\ UNCHANGED client

\* "if os.path.exists(progress_file):"
TestProgressFile ==
    /\ pc = "del_check"
    /\ pc' = IF progress_file.exists THEN "del_try" ELSE "summary"
    /\ UNCHANGED << disk, locals, proc, budget, run_history, epoch_history,
                    signals, at_exit >>
    /\ UNCHANGED client

\* os.remove(progress_file)
RemoveProgressFile ==
    /\ pc = "del_try"
    /\ progress_file' = NoFile
    /\ pc' = "summary"
    /\ UNCHANGED << out_files, locals, proc, budget, run_history,
                    epoch_history, signals, at_exit >>
    /\ UNCHANGED client

\* the summary is shown and search_web returns to the menu; the handler of
\* this batch stays registered and keeps the cells of the batch
ReturnToMenu ==
    /\ pc = "summary"
    /\ pc' = "menu"
    /\ handler' = "stale"
    /\ h_closure' = [processed_urls |-> processed_urls,
                     saved_count |-> saved_count]
    /\ ClearLocals
    /\ ClearRunHistory
    /\ UNCHANGED << disk, budget, epoch_history, signals, at_exit >>
    /\ UNCHANGED client

\* ---- SIGINT -------------------------------------------------------------

\* SIGINT with Python's default disposition: KeyboardInterrupt.  Outside a bare
\* except it reaches the __main__ guard, which exits with status 0.
KeyboardInterruptExits ==
    /\ handler = "default"
    /\ pc \in {"menu", "register"}
    /\ ProcessEnds(TopLevelExit("KeyboardInterrupt"))
    /\ raised' = "KeyboardInterrupt"
    /\ UNCHANGED << disk, budget, epoch_history, signals >>
    /\ UNCHANGED client

\* what the interrupted load has assigned when the bare except takes over:
\* nothing, processed_urls only, or both
PartialLoads ==
    { [processed_urls |-> {}, saved_count |-> 0],
      [processed_urls |-> progress_file.processed_urls, saved_count |-> 0],
      [processed_urls |-> progress_file.processed_urls,
       saved_count |-> progress_file.saved_count] }

\* SIGINT while the progress file is loaded: the exception raised at the
\* interrupted statement (KeyboardInterrupt, or SystemExit of a handler left
\* by an earlier batch, which has flushed its own cells first) is caught by
\* "except: pass" and the run goes on
InterruptWhileLoading ==
    /\ pc = "load_try"
    /\ \E got \in PartialLoads :
          /\ processed_urls' = got.processed_urls
          /\ saved_count' = got.saved_count
          /\ loaded' = got.processed_urls
    /\ progress_file' = IF handler = "default" THEN progress_file
                        ELSE ProgressData(h_closure.processed_urls,
                                          h_closure.saved_count)
    /\ sig_at_load' = TRUE
    /\ pc' = "register"
    /\ UNCHANGED << out_files, i, extracted_articles, failed_urls, ret, proc,
                    budget, fetched, written, marked, fetch_failed,
                    epoch_history, sig_in_loop, at_exit >>
    /\ UNCHANGED client

\* handle_interrupt: save_progress() of the closure, then sys.exit(0), with
\* SystemExit reaching the top: the process ends
HandleInterruptExits ==
    /\ handler # "default"
    /\ pc # "exited"
    /\ ~InBareExcept
    /\ progress_file' = ProgressData(ClosureCells.processed_urls,
                                     ClosureCells.saved_count)
    /\ sig_in_loop' = (sig_in_loop \/ handler = "current")
    /\ ProcessEnds(0)
    /\ raised' = "SystemExit"
    /\ UNCHANGED << out_files, budget, epoch_history, sig_at_load >>
    /\ UNCHANGED client

\* handle_interrupt while the main thread is inside save_progress, os.remove
\* or the date parsing: the handler flushes, and its SystemExit is caught by
\* the bare except around the interrupted statement; the run goes on
HandleInterruptSwallowed ==
    /\ handler = "current"
    /\ pc \in {"fetch_dp", "sp_try", "del_try"}
    /\ progress_file' = ProgressData(processed_urls, saved_count)
    /\ sig_in_loop' = TRUE
    /\ CASE pc = "sp_try" -> ReturnFromSaveProgress
         [] pc = "del_try" -> pc' = "summary" /\ UNCHANGED << i, ret >>
         [] pc = "fetch_dp" -> UNCHANGED << pc, i, ret >>
    /\ UNCHANGED << out_files, processed_urls, saved_count,
                    extracted_articles, failed_urls, proc, budget, run_history,
                    epoch_history, sig_at_load, at_exit >>
    /\ UNCHANGED client

\* the statements of the program, in the order the interpreter takes them
Step ==
    \/ LoadProgress
    \/ RegisterHandler
    \/ SkipItem
    \/ FinishLoop
    \/ ParseDate
    \/ FetchRaises
    \/ SaveArticleOk
    \/ SaveArticleFails
    \/ MarkSaved
    \/ CountSaved
    \/ SaveProgress
    \/ TestProgressFile
    \/ RemoveProgressFile
    \/ ReturnToMenu

\* a SIGINT is delivered
Interrupt ==
    \/ KeyboardInterruptExits
    \/ InterruptWhileLoading
    \/ HandleInterruptExits
    \/ HandleInterruptSwallowed

Next ==
    \/ StartProcess
    \/ QuitMenu
    \/ UnexpectedException
    \/ StartBatch
    \/ Step
    \/ Interrupt

Spec == Init /\ [][Next]_vars

\* The interpreter does not stop between two statements of a running batch:
\* every fetch returns or raises (timeouts, bounded retries) and every file
\* operation returns.
FairSpec == Spec /\ WF_vars(Step)


\* ---- FirecrawlClient.提取文章信息 and _本地提取文章信息 --------------------

max_retries == 3       \* "max_retries = 3" of the download loop
RetryDelay == 2        \* "time.sleep(2)" of the download loop

\* what one requests.get(...) followed by raise_for_status() can meet
Ok200 == [exc |-> "none", status |-> 200]
HttpErrors == {[exc |-> "HTTPError", status |-> c] : c \in {400, 403, 404, 500, 503}}
ConnectionError == [exc |-> "ConnectionError", status |-> 0]
Timeout == [exc |-> "Timeout", status |-> 0]
Responses == {Ok200, ConnectionError, Timeout} \cup HttpErrors

\* the branches of the download loop that count a retry
Retryable(r) ==
    \/ r.exc = "HTTPError" /\ r.status # 403 /\ r.status # 404 /\ r.status >= 500
    \/ r.exc = "ConnectionError"
    \/ r.exc = "Timeout"

\* the branches of the download loop that raise at once
Terminal(r) == r.exc = "HTTPError" /\ ~Retryable(r)

\* a caller holds a client, built with or without an API key, and calls
\* 提取文章信息(url, 使用本地提取)
ExtractInit ==
    /\ has_client \in BOOLEAN
    /\ use_local \in BOOLEAN
    /\ local_available \in BOOLEAN
    /\ xpc = "call"
    /\ hosted_requests = 0
    /\ hosted_reply = "none"
    /\ local_runs = 0
    /\ retry_count = 0
    /\ responses = << >>
    /\ slept = 0
    /\ via = "none"

\* entry of _本地提取文章信息
EnterLocal ==
    /\ xpc' = "local"
    /\ local_runs' = local_runs + 1

\* "if 使用本地提取: return self._本地提取文章信息(url)"
CallLocalRequested ==
    /\ xpc = "call"
    /\ use_local
    /\ EnterLocal
    /\ UNCHANGED << has_client, use_local, local_available, hosted_requests,
                    hosted_reply, retry_count, responses, slept, via >>
    /\ UNCHANGED not_extract

\* "if not self._client: ... return self._本地提取文章信息(url)"
CallWithoutClient ==
    /\ xpc = "call"
    /\ ~use_local
    /\ ~has_client
    /\ EnterLocal
    /\ UNCHANGED << has_client, use_local, local_available, hosted_requests,
                    hosted_reply, retry_count, responses, slept, via >>
    /\ UNCHANGED not_extract

\* "extract_response = self._client.extract(...)": the request is sent
CallHosted ==
    /\ xpc = "call"
    /\ ~use_local
    /\ has_client
    /\ xpc' = "hosted"
    /\ hosted_requests' = hosted_requests + 1
    /\ UNCHANGED << has_client, use_local, local_available, hosted_reply,
                    local_runs, retry_count, responses, slept, via >>
    /\ UNCHANGED not_extract

\* the hosted result is discarded and the local path runs all the same
HostedDataThenLocal ==
    /\ xpc = "hosted"
    /\ hosted_reply' = "data"
    /\ EnterLocal
    /\ UNCHANGED << has_client, use_local, local_available, hosted_requests,
                    retry_count, responses, slept, via >>
    /\ UNCHANGED not_extract

\* the response carries data: "return result"
HostedReturnsData ==
    /\ xpc = "hosted"
    /\ api_key # "invalid"
    /\ hosted_reply' = "data"
    /\ xpc' = "returned"
    /\ via' = "hosted"
    /\ UNCHANGED << has_client, use_local, local_available, hosted_requests,
                    local_runs, retry_count, responses, slept >>
    /\ UNCHANGED not_extract

\* the response carries no data (RuntimeError("提取结果为空")) or the request
\* raises: "except Exception: ... return self._本地提取文章信息(url)"
HostedFails ==
    /\ xpc = "hosted"
    /\ hosted_reply' \in {"empty", "raises"}
    /\ EnterLocal
    /\ UNCHANGED << has_client, use_local, local_available, hosted_requests,
                    retry_count, responses, slept, via >>
    /\ UNCHANGED not_extract

\* "if not LOCAL_EXTRACT_AVAILABLE: raise RuntimeError(...)"
LocalUnavailable ==
    /\ xpc = "local"
    /\ ~local_available
    /\ xpc' = "raised"
    /\ via' = "local"
    /\ UNCHANGED << has_client, use_local, local_available, hosted_requests,
                    hosted_reply, local_runs, retry_count, responses, slept >>
    /\ UNCHANGED not_extract

\* "max_retries = 3; retry_count = 0; html = None": the download loop starts
StartDownload ==
    /\ xpc = "local"
    /\ local_available
    /\ retry_count' = 0
    /\ xpc' = "get"
    /\ UNCHANGED << has_client, use_local, local_available, hosted_requests,
                    hosted_reply, local_runs, responses, slept, via >>
    /\ UNCHANGED not_extract

\* one pass of "while retry_count < max_retries": a GET and what it meets
GetReturnsPage ==
    /\ xpc = "get"
    /\ retry_count < max_retries
    /\ responses' = Append(responses, Ok200)
    /\ xpc' = "parse"
    /\ UNCHANGED << has_client, use_local, local_available, hosted_requests,
                    hosted_reply, local_runs, retry_count, slept, via >>
    /\ UNCHANGED not_extract

\* a 403, 404 or other status below 500 met like a server error: counted
\* and tried again
TerminalRetried ==
    /\ xpc = "get"
    /\ retry_count < max_retries
    /\ \E r \in HttpErrors :
          /\ Terminal(r)
          /\ responses' = Append(responses, r)
    /\ retry_count' = retry_count + 1
    /\ IF retry_count + 1 < max_retries
       THEN xpc' = "get" /\ slept' = slept + RetryDelay /\ UNCHANGED via
       ELSE xpc' = "raised" /\ via' = "local" /\ UNCHANGED slept
    /\ UNCHANGED << has_client, use_local, local_available, hosted_requests,
                    hosted_reply, local_runs >>
    /\ UNCHANGED not_extract

\* HTTPError with status 403, 404 or another status below 500: raise
GetTerminal ==
    /\ xpc = "get"
    /\ retry_count < max_retries
    /\ \E r \in HttpErrors :
          /\ Terminal(r)
          /\ responses' = Append(responses, r)
    /\ xpc' = "raised"
    /\ via' = "local"
    /\ UNCHANGED << has_client, use_local, local_available, hosted_requests,
                    hosted_reply, local_runs, retry_count, slept >>
    /\ UNCHANGED not_extract

\* HTTPError with status >= 500, ConnectionError or Timeout:
\* "retry_count += 1", then sleep and continue, or raise at the last one
GetRetryable ==
    /\ xpc = "get"
    /\ retry_count < max_retries
    /\ \E r \in Responses :
          /\ Retryable(r)
          /\ responses' = Append(responses, r)
    /\ retry_count' = retry_count + 1
    /\ IF retry_count + 1 < max_retries
       THEN xpc' = "get" /\ slept' = slept + RetryDelay /\ UNCHANGED via
       ELSE xpc' = "raised" /\ via' = "local" /\ UNCHANGED slept
    /\ UNCHANGED << has_client, use_local, local_available, hosted_requests,
                    hosted_reply, local_runs >>
    /\ UNCHANGED not_extract

\* the page is parsed and the article returned ("return result")
LocalReturns ==
    /\ xpc = "parse"
    /\ xpc' = "returned"
    /\ via' = "local"
    /\ UNCHANGED << has_client, use_local, local_available, hosted_requests,
                    hosted_reply, local_runs, retry_count, responses, slept >>
    /\ UNCHANGED not_extract

\* the parsing raises: "except Exception: raise RuntimeError(本地提取失败)"
LocalParseRaises ==
    /\ xpc = "parse"
    /\ xpc' = "raised"
    /\ via' = "local"
    /\ UNCHANGED << has_client, use_local, local_available, hosted_requests,
                    hosted_reply, local_runs, retry_count, responses, slept >>
    /\ UNCHANGED not_extract

ExtractNext ==
    \/ CallLocalRequested
    \/ CallWithoutClient
    \/ CallHosted
    \/ HostedReturnsData
    \/ HostedFails
    \/ LocalUnavailable
    \/ StartDownload
    \/ GetReturnsPage
    \/ GetTerminal
    \/ GetRetryable
    \/ LocalReturns
    \/ LocalParseRaises

ExtractStart == BatchInit /\ ExtractInit /\ SearchIdle /\ NameIdle /\ CliIdle /\ TimeIdle

ExtractSpec == ExtractStart /\ [][ExtractNext]_vars

\* ---- FirecrawlClient._免费搜索, _过滤搜索结果, _结果相关, _包含中文 -------------

MaxHits == 3           \* hits the provider yields during one call, at most
MaxLimit == 2          \* 结果数量 ranges over 1..MaxLimit

search_max_retries == 3    \* "max_retries = 3" of _免费搜索

\* strings are sequences of code points
Queries ==
    { << 112, 121, 116, 104, 111, 110 >>,                     \* "python"
      << 112, 121, 116, 104, 111, 110, 32, 116, 117, 116, 111, 114, 105, 97, 108 >>,   \* "python tutorial"
      << 80, 121, 116, 104, 111, 110, 32, 25945, 31243 >>,      \* "Python 教程"
      << 25945, 31243 >>,                                         \* "教程"
      << 12363, 12394 >> }                                       \* "かな" (hiragana)

Hit(url, title, description) ==
    [url |-> url, title |-> title, description |-> description]

\* what the provider can yield with a URL that passes the http(s) test
Pool ==
    { Hit(<< 104, 116, 116, 112, 58, 47, 47, 97 >>,
          << 80, 121, 116, 104, 111, 110, 32, 71, 117, 105, 100, 101 >>, << >>),
      Hit(<< 104, 116, 116, 112, 58, 47, 47, 98 >>,
          << 67, 111, 111, 107, 105, 110, 103 >>, << >>),
      Hit(<< 104, 116, 116, 112, 58, 47, 47, 97 >>,
          << 67, 111, 111, 107, 105, 110, 103 >>, << >>),
      Hit(<< 104, 116, 116, 112, 58, 47, 47, 101, 47, 112, 121, 116, 104, 111, 110 >>,
          << 25945 >>, << 31243 >>) }

CjkFirst == 19968      \* '一'
CjkLast == 40959       \* '鿿'

\* any character outside ASCII counts
ContainsNonAscii(text) ==
    \E k \in 1..Len(text) : text[k] > 127

\* _包含中文: any('一' <= ch <= '鿿' for ch in 文本)
ContainsChinese(text) ==
    \E k \in 1..Len(text) : CjkFirst <= text[k] /\ text[k] <= CjkLast

\* str.lower() on the letters the model uses
Lower(str) ==
    [k \in 1..Len(str) |-> IF 65 <= str[k] /\ str[k] <= 90 THEN str[k] + 32 ELSE str[k]]

\* "needle in hay"
Contains(hay, needle) ==
    \E k \in 0..(Len(hay) - Len(needle)) : SubSeq(hay, k + 1, k + Len(needle)) = needle

\* the characters \s matches, as far as the model's strings hold them
IsSpace(ch) == ch \in (9..13) \cup {32, 12288}

\* [token.lower() for token in re.split(r'\s+', 查询) if token.strip()]:
\* the maximal runs of characters that are not white space, lower-cased
Tokens(text) ==
    LET starts == {a \in 1..Len(text) :
                      ~IsSpace(text[a]) /\ (a = 1 \/ IsSpace(text[a - 1]))}
        End(a) == CHOOSE b \in a..Len(text) :
                      /\ b = Len(text) \/ IsSpace(text[b + 1])
                      /\ \A k \in a..b : ~IsSpace(text[k])
    IN  {Lower(SubSeq(text, a, End(a))) : a \in starts}

\* _结果相关 (each local is bound once, as the assignments of the code do)
ResultRelevant(q, result) ==
    IF q = << >> THEN TRUE
    ELSE
        \E combined \in {Lower(result.title \o << 32 >> \o result.description)},
           url \in {Lower(result.url)},
           split \in {Tokens(q)},
           joined \in {SelectSeq(q, LAMBDA ch : ch # 32)} :
            \E tokens \in {IF split = {} THEN {Lower(q)} ELSE split} :
                \/ \E token \in tokens :
                      token # << >> /\ (Contains(combined, token) \/ Contains(url, token))
                \/ /\ ContainsChinese(q)
                   /\ joined # << >>
                   /\ Contains(result.title \o result.description, joined)

\* the answers of _结果相关 for the queries and candidates of the model,
\* computed once
RelevantTo == [q \in Queries |-> {r \in Pool : ResultRelevant(q, r)}]

\* s[:n]
Take(s, n) == SubSeq(s, 1, IF n < Len(s) THEN n ELSE Len(s))

\* the "for item in 原始结果" loop of _过滤搜索结果: << filtered, fallback >>
RECURSIVE FilterLoop(_, _, _, _, _, _)
FilterLoop(q, raw, k, filtered, fallback, seen_urls) ==
    IF k > Len(raw) THEN << filtered, fallback >>
    ELSE IF raw[k].url = << >> \/ raw[k].url \in seen_urls
         THEN FilterLoop(q, raw, k + 1, filtered, fallback, seen_urls)
         ELSE IF raw[k] \in RelevantTo[q]
              THEN FilterLoop(q, raw, k + 1, Append(filtered, raw[k]), fallback,
                              seen_urls \cup {raw[k].url})
              ELSE FilterLoop(q, raw, k + 1, filtered, Append(fallback, raw[k]),
                              seen_urls \cup {raw[k].url})

\* the items with a URL, relevant ones first, with no test of seen_urls
FilterWithoutSeen(q, raw, n) ==
    Take(SelectSeq(raw, LAMBDA r : r.url # << >> /\ r \in RelevantTo[q])
            \o SelectSeq(raw, LAMBDA r : r.url # << >> /\ r \notin RelevantTo[q]), n)

\* the candidates in provider order, cut to the requested count
FilterInProviderOrder(q, raw, n) ==
    Take(SelectSeq(raw, LAMBDA r : \E k \in 1..Len(raw) :
                            /\ raw[k] = r
                            /\ \A j \in 1..(k - 1) : raw[j].url # r.url), n)

\* _过滤搜索结果
FilterSearchResults(q, raw, n) ==
    IF raw = << >> THEN << >>
    ELSE
        LET parts == FilterLoop(q, raw, 1, << >>, << >>, {})
            filtered == parts[1]
            fallback == parts[2]
            extended == IF Len(filtered) < n
                        THEN filtered \o Take(fallback, n - Len(filtered))
                        ELSE filtered
        IN  Take(extended, n)

\* a caller calls _免费搜索(查询, 结果数量)
SearchInit ==
    /\ query \in Queries
    /\ limit \in 1..MaxLimit
    /\ ddg_available \in BOOLEAN
    /\ spc = "call"
    /\ search_retries = 0
    /\ raw_results = << >>
    /\ attempts = 0
    /\ last_attempt = "none"
    /\ region = "none"
    /\ found = << >>

\* "if not DDG_AVAILABLE: raise RuntimeError(...)"
SearchUnavailable ==
    /\ spc = "call"
    /\ ~ddg_available
    /\ spc' = "raised"
    /\ UNCHANGED << query, limit, ddg_available, search_retries, raw_results,
                    attempts, last_attempt, region, found >>
    /\ UNCHANGED not_search

\* "raw_results = []; max_retries = 3; retry_count = 0; region = ..."
SearchStart ==
    /\ spc = "call"
    /\ ddg_available
    /\ raw_results' = << >>
    /\ search_retries' = 0
    /\ region' = IF ContainsChinese(query) THEN "cn-zh" ELSE "wt-wt"
    /\ spc' = "loop"
    /\ UNCHANGED << query, limit, ddg_available, attempts, last_attempt, found >>
    /\ UNCHANGED not_search

\* "while retry_count < max_retries: ... ddgs.text(...)": one more attempt
AttemptStarts ==
    /\ spc = "loop"
    /\ search_retries < search_max_retries
    /\ attempts' = attempts + 1
    /\ spc' = "iterating"
    /\ UNCHANGED << query, limit, ddg_available, search_retries, raw_results,
                    last_attempt, region, found >>
    /\ UNCHANGED not_search

\* "for r in search_iter: ... raw_results.append(...)"
YieldHit ==
    /\ spc = "iterating"
    /\ Len(raw_results) < MaxHits
    /\ \E r \in Pool : raw_results' = Append(raw_results, r)
    /\ UNCHANGED << query, limit, ddg_available, spc, search_retries, attempts,
                    last_attempt, region, found >>
    /\ UNCHANGED not_search

\* the iteration ends: "if len(raw_results) > 0: break", else count a retry
\* and go round again, or "break" at the last one
AttemptCompletes ==
    /\ spc = "iterating"
    /\ last_attempt' = "completed"
    /\ IF Len(raw_results) > 0
       THEN spc' = "after" /\ UNCHANGED search_retries
       ELSE /\ search_retries' = search_retries + 1
            /\ spc' = IF search_retries + 1 < search_max_retries THEN "loop" ELSE "after"
    /\ UNCHANGED << query, limit, ddg_available, raw_results, attempts,
                    region, found >>
    /\ UNCHANGED not_search

\* "except StopIteration: break"
AttemptStopIteration ==
    /\ spc = "iterating"
    /\ last_attempt' = "StopIteration"
    /\ spc' = "after"
    /\ UNCHANGED << query, limit, ddg_available, search_retries, raw_results,
                    attempts, region, found >>
    /\ UNCHANGED not_search

\* "except Exception as retry_error": count a retry and go round again, or
\* "raise retry_error" at the last one
AttemptRaises ==
    /\ spc = "iterating"
    /\ last_attempt' = "error"
    /\ search_retries' = search_retries + 1
    /\ spc' = IF search_retries + 1 < search_max_retries THEN "loop" ELSE "raised"
    /\ UNCHANGED << query, limit, ddg_available, raw_results, attempts,
                    region, found >>
    /\ UNCHANGED not_search

\* an empty list is handed back where the code raises
SearchReturnsEmpty ==
    /\ spc = "after"
    /\ Len(raw_results) = 0
    /\ found' = << >>
    /\ spc' = "returned"
    /\ UNCHANGED << query, limit, ddg_available, search_retries, raw_results,
                    attempts, last_attempt, region >>
    /\ UNCHANGED not_search

\* "if len(raw_results) == 0: raise RuntimeError(未能获取到搜索结果)"
SearchFailsEmpty ==
    /\ spc = "after"
    /\ Len(raw_results) = 0
    /\ spc' = "raised"
    /\ UNCHANGED << query, limit, ddg_available, search_retries, raw_results,
                    attempts, last_attempt, region, found >>
    /\ UNCHANGED not_search

\* "filtered_results = self._过滤搜索结果(...); return filtered_results"
SearchReturns ==
    /\ spc = "after"
    /\ Len(raw_results) > 0
    /\ found' = FilterSearchResults(query, raw_results, limit)
    /\ spc' = "returned"
    /\ UNCHANGED << query, limit, ddg_available, search_retries, raw_results,
                    attempts, last_attempt, region >>
    /\ UNCHANGED not_search

SearchNext ==
    \/ SearchUnavailable
    \/ SearchStart
    \/ AttemptStarts
    \/ YieldHit
    \/ AttemptCompletes
    \/ AttemptStopIteration
    \/ AttemptRaises
    \/ SearchFailsEmpty
    \/ SearchReturns

\* ---- _过滤搜索结果 on its own: any list of items, with or without a URL ----

\* an item whose 'url' is missing or empty
NoUrlHit == Hit(<< >>, << 80, 121, 116, 104, 111, 110 >>, << >>)

FilterInit ==
    /\ query \in Queries
    /\ limit \in 1..MaxLimit
    /\ raw_results \in UNION {[1..n -> Pool \cup {NoUrlHit}] : n \in 0..MaxHits}
    /\ spc = "filter"
    /\ ddg_available = TRUE
    /\ search_retries = 0
    /\ attempts = 0
    /\ last_attempt = "none"
    /\ region = "none"
    /\ found = << >>

\* "filtered_results = self._过滤搜索结果(查询, raw_results, 结果数量)"
ApplyFilter ==
    /\ spc = "filter"
    /\ found' = FilterSearchResults(query, raw_results, limit)
    /\ spc' = "filtered"
    /\ UNCHANGED << query, limit, ddg_available, search_retries, raw_results,
                    attempts, last_attempt, region >>
    /\ UNCHANGED not_search

FilterNext == ApplyFilter

FilterStart == BatchInit /\ ExtractIdle /\ FilterInit /\ NameIdle /\ CliIdle /\ TimeIdle

FilterSpec == FilterStart /\ [][FilterNext]_vars

SearchStartState == BatchInit /\ ExtractIdle /\ SearchInit /\ NameIdle /\ CliIdle /\ TimeIdle

SearchSpec == SearchStartState /\ [][SearchNext]_vars

\* the call runs on: the provider's iterator is finite and every branch of
\* the loop is taken in finite time
FairSearchSpec == SearchSpec /\ WF_vars(SearchNext)

\* ---- file names: safe_title and safe_query of firecrawl_cli.py ---------------

MaxPad == 50           \* longest run of letters put between head and tail

NameLimit == 50        \* "[:50]"

\* n times the letter a
Pad(n) == [k \in 1..n |-> 97]

\* titles and queries: a head, a run of letters, a tail
Texts ==
    { head \o Pad(n) \o tail :
        head \in { << >>,
                   << 65, 47, 66, 58, 32, 84, 101, 115, 116, 63 >>,   \* "A/B: Test?"
                   << 72, 101, 108, 108, 111, 32, 87, 111, 114, 108, 100 >>,  \* "Hello World"
                   << 32, 97, 45, 98, 95, 99 >>,                    \* " a-b_c"
                   << 25945, 31243, 32, 49 >>,                          \* "教程 1"
                   << 63, 33 >> },                                   \* "?!"
        n \in {0, MaxPad - 2, MaxPad - 1, MaxPad},
        tail \in { << >>, << 32, 122, 32 >> } }                           \* " z "

\* c.isalnum(), for the characters of the model
IsAlnum(ch) ==
    \/ 48 <= ch /\ ch <= 57
    \/ 65 <= ch /\ ch <= 90
    \/ 97 <= ch /\ ch <= 122
    \/ 19968 <= ch /\ ch <= 40959

\* "".join(c for c in s if c.isalnum() or c in (' ', '-', '_')).strip()[:50]
SafePart(s) ==
    LET kept == SelectSeq(s, LAMBDA ch : IsAlnum(ch) \/ ch \in {32, 45, 95})
        solid == {k \in 1..Len(kept) : kept[k] # 32}
        stripped == IF solid = {} THEN << >>
                    ELSE SubSeq(kept, CHOOSE a \in solid : \A k \in solid : a <= k,
                                      CHOOSE b \in solid : \A k \in solid : k <= b)
    IN  SubSeq(stripped, 1, IF Len(stripped) < NameLimit THEN Len(stripped) ELSE NameLimit)

\* .replace(' ', '_')
Underscored(s) == [k \in 1..Len(s) |-> IF s[k] = 32 THEN 95 ELSE s[k]]

\* a title or a query is about to be made part of a file name
NameInit ==
    /\ given \in Texts
    /\ site = "none"
    /\ fragment = << >>

\* the places that build safe_title or safe_query and replace the spaces
ReplacingSites ==
    { "extract_article",          \* safe_title of the single article
      "search_results_query",     \* safe_query of the saved search results
      "search_results_title",     \* safe_title of the saved search results
      "batch_query",              \* safe_query of the batch and its checkpoint
      "save_article" }            \* safe_title of a batch article

\* "safe = "".join(...).strip()[:50]; safe = safe.replace(' ', '_')"
SafeName ==
    /\ site = "none"
    /\ site' \in ReplacingSites
    /\ fragment' = Underscored(SafePart(given))
    /\ UNCHANGED given
    /\ UNCHANGED not_name

\* crawl_website: safe_title goes into the file name as .strip()[:50] left it
CrawlPageName ==
    /\ site = "none"
    /\ site' = "crawl_website"
    /\ fragment' = SafePart(given)
    /\ UNCHANGED given
    /\ UNCHANGED not_name

NameNext ==
    \/ SafeName
    \/ CrawlPageName

NameStart == BatchInit /\ ExtractIdle /\ SearchIdle /\ NameInit /\ CliIdle /\ TimeIdle

NameSpec == NameStart /\ [][NameNext]_vars

\* ---- the menu of firecrawl_cli.py: one feature from choice to menu ----------

\* the features that call a hosted-only method of the client: 抓取网页,
\* 爬取网站, 搜索网页 (使用免费搜索 not passed), 获取网站地图, 批量抓取
HostedOnly == {"scrape", "crawl", "search", "sitemap", "batch_scrape"}

Features == HostedOnly \cup {"extract"}

\* the features that read a number with int(get_user_input(...))
ReadsNumber == {"crawl", "search", "sitemap"}

\* the call record of 提取文章信息 is cleared
NoExtractCall ==
    /\ xpc' = "idle"
    /\ hosted_requests' = 0
    /\ hosted_reply' = "none"
    /\ local_runs' = 0
    /\ retry_count' = 0
    /\ responses' = << >>
    /\ slept' = 0
    /\ via' = "none"

\* the tool shows its menu; the key is set in the environment or not, the
\* libraries of the local extraction are installed or not
CliInit ==
    /\ api_key \in {"unset", "set", "invalid"}
    /\ cpc = "menu"
    /\ feature = "none"
    /\ outcome = "none"
    /\ message = "none"
    /\ requests_sent = 0
    /\ error_text = << >>
    /\ has_client = FALSE
    /\ use_local = FALSE
    /\ local_available \in BOOLEAN
    /\ xpc = "idle"
    /\ hosted_requests = 0
    /\ hosted_reply = "none"
    /\ local_runs = 0
    /\ retry_count = 0
    /\ responses = << >>
    /\ slept = 0
    /\ via = "none"

\* main: a choice 1..6 calls the feature, which starts with check_api_key()
ChooseFeature ==
    /\ cpc = "menu"
    /\ feature' \in Features
    /\ cpc' = "check"
    /\ outcome' = "none"
    /\ message' = "none"
    /\ requests_sent' = 0
    /\ error_text' = << >>
    /\ has_client' = FALSE
    /\ NoExtractCall
    /\ UNCHANGED << api_key, use_local, local_available >>
    /\ UNCHANGED not_cli

\* check_api_key: the key is set, "return True"
CheckKeyPresent ==
    /\ cpc = "check"
    /\ api_key # "unset"
    /\ cpc' = "input"
    /\ UNCHANGED << api_key, feature, outcome, message, requests_sent >>
    /\ UNCHANGED << error_text, extract_vars, not_cli >>

\* check_api_key: no key and the answer is not "1": "return False", and the
\* feature returns at once
CheckDeclined ==
    /\ cpc = "check"
    /\ api_key = "unset"
    /\ outcome' = "refused"
    /\ cpc' = "finished"
    /\ UNCHANGED << api_key, feature, message, requests_sent >>
    /\ UNCHANGED << error_text, extract_vars, not_cli >>

\* check_api_key: no key and the answer is "1": set_api_key() stores the key
\* typed, or returns without storing it when the user does not confirm a key
\* that lacks the fc- prefix; then "return True"
CheckSetsKey ==
    /\ cpc = "check"
    /\ api_key = "unset"
    /\ api_key' \in {"set", "invalid", "unset"}
    /\ cpc' = "input"
    /\ UNCHANGED << feature, outcome, message, requests_sent >>
    /\ UNCHANGED << error_text, extract_vars, not_cli >>

\* "int(get_user_input(...))" on an answer that is no number: the ValueError
\* is raised outside the feature's try and ends the process
NumberInputRaises ==
    /\ cpc = "input"
    /\ feature \in ReadsNumber
    /\ cpc' = "exited"
    /\ outcome' = "error"
    /\ message' = "ValueError: invalid literal"
    /\ UNCHANGED << api_key, feature, requests_sent >>
    /\ UNCHANGED << error_text, extract_vars, not_cli >>

\* the key is tried out while the client is built
ConstructClientValidates ==
    /\ cpc = "input"
    /\ IF api_key = "invalid"
       THEN /\ outcome' = "error"
            /\ message' = "ValueError: API key invalid"
            /\ cpc' = "finished"
            /\ UNCHANGED << has_client, xpc >>
       ELSE /\ has_client' = (api_key # "unset")
            /\ cpc' = "call"
            /\ xpc' = IF feature = "extract" THEN "call" ELSE "idle"
            /\ UNCHANGED << outcome, message >>
    /\ UNCHANGED << api_key, feature, requests_sent, error_text >>
    /\ UNCHANGED << use_local, local_available, hosted_requests, hosted_reply,
                    local_runs, retry_count, responses, slept, via >>
    /\ UNCHANGED not_cli

\* "client = FirecrawlClient()": without a key self._client is None; with a
\* key, whatever it is, the hosted client is built
ConstructClient ==
    /\ cpc = "input"
    /\ has_client' = (api_key # "unset")
    /\ cpc' = "call"
    /\ xpc' = IF feature = "extract" THEN "call" ELSE "idle"
    /\ UNCHANGED << api_key, feature, outcome, message, requests_sent, error_text >>
    /\ UNCHANGED << use_local, local_available, hosted_requests, hosted_reply,
                    local_runs, retry_count, responses, slept, via >>
    /\ UNCHANGED not_cli

\* FirecrawlClient.__init__: Firecrawl(...) raises, RuntimeError; the
\* feature's "except Exception" prints it
ConstructClientRaises ==
    /\ cpc = "input"
    /\ api_key # "unset"
    /\ outcome' = "error"
    /\ message' = "RuntimeError: client initialisation failed"
    /\ cpc' = "finished"
    /\ UNCHANGED << api_key, feature, requests_sent >>
    /\ UNCHANGED << error_text, extract_vars, not_cli >>

\* the request goes out before the key is looked at
RequestThenNeedsKey ==
    /\ cpc = "call"
    /\ feature \in HostedOnly
    /\ ~has_client
    /\ requests_sent' = requests_sent + 1
    /\ outcome' = "error"
    /\ message' = "ValueError: API key needed"
    /\ cpc' = "finished"
    /\ UNCHANGED << api_key, feature >>
    /\ UNCHANGED << error_text, extract_vars, not_cli >>

\* a hosted-only method: "if not self._client: raise ValueError(...)"; the
\* feature's "except Exception" prints it
HostedOnlyNeedsKey ==
    /\ cpc = "call"
    /\ feature \in HostedOnly
    /\ ~has_client
    /\ outcome' = "error"
    /\ message' = "ValueError: API key needed"
    /\ cpc' = "finished"
    /\ UNCHANGED << api_key, feature, requests_sent >>
    /\ UNCHANGED << error_text, extract_vars, not_cli >>

\* what str(e) of a failed self._client.scrape(...) can read
ErrorTexts ==
    { << 52, 48, 49, 32, 85, 110, 97, 117, 116, 104, 111, 114, 105, 122, 101, 100 >>,  \* "401 Unauthorized"
      << 85, 110, 97, 117, 116, 104, 111, 114, 105, 122, 101, 100, 58, 32, 98, 97, 100, 32, 107, 101, 121 >>,  \* "Unauthorized: bad key"
      << 52, 48, 52, 32, 78, 111, 116, 32, 70, 111, 117, 110, 100 >>,               \* "404 Not Found"
      << 82, 101, 113, 117, 101, 115, 116, 32, 84, 105, 109, 101, 111, 117, 116 >>,    \* "Request Timeout"
      << 116, 105, 109, 101, 111, 117, 116, 32, 52, 48, 52 >>,                      \* "timeout 404"
      << 52, 48, 52, 32, 117, 110, 97, 117, 116, 104, 111, 114, 105, 122, 101, 100 >>,  \* "404 unauthorized"
      << 116, 105, 109, 101, 111, 117, 116, 32, 97, 102, 116, 101, 114, 32, 52, 48, 49, 32, 109, 115 >>,  \* "timeout after 401 ms"
      << 53, 48, 48, 32, 83, 101, 114, 118, 101, 114, 32, 69, 114, 114, 111, 114 >> }  \* "500 Server Error"

\* any branch but the first is taken for the error
ScrapeErrorUnordered(error_msg) ==
    IF Contains(error_msg, << 52, 48, 52 >>)
    THEN "ValueError: URL not reachable"
    ELSE IF Contains(Lower(error_msg), << 116, 105, 109, 101, 111, 117, 116 >>)
    THEN "TimeoutError: request timed out"
    ELSE IF \/ Contains(error_msg, << 52, 48, 49 >>)
            \/ Contains(Lower(error_msg), << 117, 110, 97, 117, 116, 104, 111, 114, 105, 122, 101, 100 >>)
    THEN "ValueError: API key invalid"
    ELSE "RuntimeError: scrape failed"

\* 抓取网页, "except Exception as e": the exception raised for error_msg
ScrapeError(error_msg) ==
    IF \/ Contains(error_msg, << 52, 48, 49 >>)
       \/ Contains(Lower(error_msg), << 117, 110, 97, 117, 116, 104, 111, 114, 105, 122, 101, 100 >>)
    THEN "ValueError: API key invalid"
    ELSE IF Contains(error_msg, << 52, 48, 52 >>)
    THEN "ValueError: URL not reachable"
    ELSE IF Contains(Lower(error_msg), << 116, 105, 109, 101, 111, 117, 116 >>)
    THEN "TimeoutError: request timed out"
    ELSE "RuntimeError: scrape failed"

\* 抓取网页 with a client: self._client.scrape(...) raises, the error is told
\* apart by its text and the feature's "except Exception" prints it
ScrapeFails ==
    /\ cpc = "call"
    /\ feature = "scrape"
    /\ has_client
    /\ requests_sent' = requests_sent + 1
    /\ error_text' \in ErrorTexts
    /\ outcome' = "error"
    /\ message' = ScrapeError(error_text')
    /\ cpc' = "finished"
    /\ UNCHANGED << api_key, feature >>
    /\ UNCHANGED << extract_vars, not_cli >>

\* a hosted-only method with a client: the request is sent and answered
\* (never so with a key the hosted API rejects), or it raises and the
\* feature's "except Exception" prints the error; 抓取网页 has its own
\* account of the errors (ScrapeFails)
HostedOnlyRequest ==
    /\ cpc = "call"
    /\ feature \in HostedOnly
    /\ has_client
    /\ requests_sent' = requests_sent + 1
    /\ \/ api_key # "invalid" /\ outcome' = "done" /\ message' = "none"
       \/ feature # "scrape" /\ outcome' = "error" /\ message' = "hosted request failed"
    /\ cpc' = "finished"
    /\ UNCHANGED << api_key, feature >>
    /\ UNCHANGED << error_text, extract_vars, not_cli >>

\* extract_article: 提取文章信息 has returned the article, or has raised and
\* the feature's "except Exception" prints the error
ExtractFeatureEnds ==
    /\ cpc = "call"
    /\ feature = "extract"
    /\ xpc \in {"returned", "raised"}
    /\ outcome' = IF xpc = "returned" THEN "done" ELSE "error"
    /\ message' = IF xpc = "returned" THEN "none"
                  ELSE IF ~local_available THEN "RuntimeError: library missing"
                  ELSE "RuntimeError: local extraction failed"
    /\ cpc' = "finished"
    /\ UNCHANGED << api_key, feature, requests_sent >>
    /\ UNCHANGED << error_text, extract_vars, not_cli >>

\* main: "input(按 Enter 返回主菜单)", and round the "while True" again
BackToMenu ==
    /\ cpc = "finished"
    /\ cpc' = "menu"
    /\ UNCHANGED << api_key, feature, outcome, message, requests_sent >>
    /\ UNCHANGED << error_text, extract_vars, not_cli >>

CliNext ==
    \/ ChooseFeature
    \/ CheckKeyPresent
    \/ CheckDeclined
    \/ CheckSetsKey
    \/ NumberInputRaises
    \/ ConstructClient
    \/ ConstructClientRaises
    \/ HostedOnlyNeedsKey
    \/ HostedOnlyRequest
    \/ ScrapeFails
    \/ ExtractFeatureEnds
    \/ BackToMenu
    \/ CallWithoutClient
    \/ CallHosted
    \/ HostedReturnsData
    \/ HostedFails
    \/ LocalUnavailable
    \/ StartDownload
    \/ GetReturnsPage
    \/ GetTerminal
    \/ GetRetryable
    \/ LocalReturns
    \/ LocalParseRaises

CliStart == BatchInit /\ SearchIdle /\ NameIdle /\ CliInit /\ TimeIdle

CliSpec == CliStart /\ [][CliNext]_vars

\* ---- _本地提取文章信息: the publish time of the page -----------------------

\* time_selectors, in the order they are tried
TimeSelectors ==
    << "meta[property=article:published_time]",
       "meta[property=article:modified_time]",
       "meta[name=publishdate]",
       "meta[name=pubdate]",
       "time[datetime]",
       "time[pubdate]" >>

\* what original_soup.find_all(tag_name, attrs) can give for one selector:
\* the content (meta) or datetime (time) of each tag found, in page order
TagLists ==
    { << >>,                                       \* no such tag
      << << >> >>,                                 \* one tag, value missing or empty
      << << 50, 48, 50, 52, 45, 48, 49, 45, 48, 50, 84, 49, 48, 58, 48, 48, 58, 48, 48, 90 >> >>,     \* "2024-01-02T10:00:00Z"
      << << >>, << 50, 48, 50, 51, 45, 48, 53, 45, 48, 54 >> >>,        \* empty, then "2023-05-06"
      << << 115, 111, 111, 110 >>,                        \* "soon", then "2024-01-02T10:00:00Z"
         << 50, 48, 50, 52, 45, 48, 49, 45, 48, 50, 84, 49, 48, 58, 48, 48, 58, 48, 48, 90 >> >> }

\* "try: dt = date_parser.parse(time_str); publish_time = dt.strftime(
\* '%Y-%m-%d %H:%M:%S'); except: publish_time = time_str", for ISO 8601 dates
\* with or without a UTC time; any other text is one the parser raises on
FormatTime(time_str) ==
    LET IsDigit(k) == time_str[k] \in 48..57
        IsoDate == /\ Len(time_str) >= 10
                   /\ \A k \in {1, 2, 3, 4, 6, 7, 9, 10} : IsDigit(k)
                   /\ time_str[5] = 45 /\ time_str[8] = 45
        IsoTime == /\ Len(time_str) = 20
                   /\ \A k \in {12, 13, 15, 16, 18, 19} : IsDigit(k)
                   /\ time_str[11] = 84 /\ time_str[14] = 58
                   /\ time_str[17] = 58 /\ time_str[20] = 90
    IN  IF IsoDate /\ IsoTime
        THEN SubSeq(time_str, 1, 10) \o << 32 >> \o SubSeq(time_str, 12, 19)
        ELSE IF IsoDate /\ Len(time_str) = 10
        THEN time_str \o << 32, 48, 48, 58, 48, 48, 58, 48, 48 >>
        ELSE time_str

\* "for tag in tags: ... if time_str: ...; break": the first tag with a value
RECURSIVE TagValue(_, _)
TagValue(tags, n) ==
    IF n > Len(tags) THEN << >>
    ELSE IF tags[n] # << >> THEN FormatTime(tags[n])
    ELSE TagValue(tags, n + 1)

\* every selector is tried and a later one overwrites an earlier one
ScanLastWins(doc, k) ==
    LET with_value == {j \in k..Len(TimeSelectors) : TagValue(doc[j], 1) # << >>}
    IN  IF with_value = {} THEN << >>
        ELSE TagValue(doc[CHOOSE j \in with_value : \A l \in with_value : l <= j], 1)

\* "for tag_name, attrs in time_selectors: ... if publish_time: break"
RECURSIVE ScanSelectors(_, _)
ScanSelectors(doc, k) ==
    IF k > Len(TimeSelectors) THEN << >>
    ELSE IF TagValue(doc[k], 1) # << >> THEN TagValue(doc[k], 1)
    ELSE ScanSelectors(doc, k + 1)

TimeInit ==
    /\ time_tags \in [1..Len(TimeSelectors) -> TagLists]
    /\ tpc = "scan"
    /\ publish_time = << >>

\* "publish_time = ''" and the two loops over time_selectors and tags
ExtractPublishTime ==
    /\ tpc = "scan"
    /\ publish_time' = ScanSelectors(time_tags, 1)
    /\ tpc' = "done"
    /\ UNCHANGED time_tags
    /\ UNCHANGED << batch_vars, extract_vars, search_vars, name_vars, cli_vars >>

TimeNext == ExtractPublishTime

TimeStart == BatchInit /\ ExtractIdle /\ SearchIdle /\ NameIdle /\ CliIdle /\ TimeInit

TimeSpec == TimeStart /\ [][TimeNext]_vars

\* ---- save_article: the path of an article's file --------------------------

\* safe_query of a batch, here of the query "python 3"
safe_query == Underscored(SafePart(<< 112, 121, 116, 104, 111, 110, 32, 51 >>))

\* article.get('title', '无标题') of the fetched articles
Titles ==
    { << 71, 117, 105, 100, 101 >>,                 \* "Guide"
      << 49, 32, 71, 117, 105, 100, 101 >>,        \* "1 Guide"
      << >> }                                      \* ""

\* str(n)
RECURSIVE Digits(_)
Digits(n) == IF n < 10 THEN << 48 + n >> ELSE Digits(n \div 10) \o << 48 + (n % 10) >>

\* the name without "{index:03d}_"
FilenameWithoutIndex(index, title) ==
    safe_query \o << 95 >> \o Underscored(SafePart(title)) \o << 46, 109, 100 >>

\* f"{index:03d}_{safe_query}_{safe_title}.md"
Filename(index, title) ==
    LET d == Digits(index)
        zeros == [k \in 1..(IF Len(d) < 3 THEN 3 - Len(d) ELSE 0) |-> 48]
    IN  zeros \o d \o << 95 >> \o safe_query \o << 95 >>
            \o Underscored(SafePart(title)) \o << 46, 109, 100 >>

\* the names save_article can give the file of each item of the list
OutputNames == [k \in Items |-> {Filename(k, t) : t \in Titles}]

\* ---- claims -------------------------------------------------------------

\* the URLs of a set of indexes of the list
UrlsOf(S) == {results[k] : k \in S} \ {EmptyUrl}

\* C3: every item whose URL is in the processed set this run loaded from the
\* progress file is skipped in this run: its fetch is not attempted and no
\* output file is written for it.
C3_LoadedSkipped ==
    \A k \in Items :
        results[k] \in loaded =>
            k \notin fetched /\ k \notin fetch_failed /\ k \notin written

\* a resumed run is at its summary, having skipped what it loaded and fetched
\* the rest
C3_Witness ==
    /\ pc = "summary"
    /\ loaded # {}
    /\ fetched # {}
    /\ \E k \in Items : results[k] \in loaded

\* C1: an interrupt arrives while item i is being fetched, the items before
\* it being finished: the progress file the process leaves lists exactly the
\* URLs of items 1..i-1, and a run that has loaded a progress file fetches
\* exactly the URLs the file does not list.
C1_InterruptResume ==
    /\ [][handler = "current" /\ Fetching /\ pc' = "exited"
            => /\ progress_file'.exists
               /\ progress_file'.processed_urls = UrlsOf(1..(i - 1))]_vars
    /\ [](pc = "summary" /\ loaded # {}
            => UrlsOf(fetched \cup fetch_failed) = Urls \ loaded)

\* C2: from a start with no progress file until a run completes, no item is
\* fetched twice, and the URLs reported as succeeded or failed by those runs
\* are together the URLs of the list.
C2_FetchedOnceAllReported ==
    /\ [][\A k \in fetched' \ fetched : k \notin fetched_before]_vars
    /\ [](pc = "summary" => reported_ok \cup reported_failed = Urls)

\* C4: as long as the progress file exists, each write of it keeps every URL
\* the file held before the write.
C4_CheckpointMonotone ==
    [][progress_file.exists /\ progress_file'.exists
          => progress_file.processed_urls
                \subseteq progress_file'.processed_urls]_vars

\* C5: once handle_interrupt has been called in a running batch, the process
\* is ended: it fetches nothing and writes no output file any more.
C5_InterruptTerminates ==
    /\ [](sig_in_loop => pc = "exited")
    /\ [][sig_in_loop
            => fetched' \subseteq fetched /\ out_files' = out_files]_vars

\* C6: an item whose fetch or whose save has failed has its URL in
\* processed_urls when the loop goes on, and a URL once reported as failed is
\* not fetched again.
C6_FailedUrlMarked ==
    /\ [](pc = "loop" => UrlsOf(failed_urls) \subseteq processed_urls)
    /\ [][\A k \in (fetched' \ fetched) \cup (fetch_failed' \ fetch_failed) :
              results[k] \notin reported_failed]_vars

\* C7: a failed fetch or a failed save does not end the batch: the batch is
\* left only through its summary or by an interrupt that ends the process, at
\* the summary every URL of the list has been processed or reported as failed,
\* and a run with a failure reaches its summary unless an interrupt ends it.
C7_FailureNeverAborts ==
    /\ [][InBatch /\ ~InBatch' => pc = "summary" \/ pc' = "exited"]_vars
    /\ [](pc = "summary"
            => Urls \subseteq processed_urls \cup UrlsOf(failed_urls))
    /\ (failed_urls # {} ~> (pc = "summary" \/ pc = "exited"))

\* a run is at its summary with a failed item, having fetched a later item,
\* and no interrupt has come
C7_Witness ==
    /\ pc = "summary"
    /\ ~sig_in_loop
    /\ ~sig_at_load
    /\ \E k \in failed_urls : \E j \in fetched : j > k

\* C8: once the loop has processed the whole list, the progress file is gone;
\* an interrupt that ends the run leaves the progress file, and the next run
\* loads what the file holds.
C8_CheckpointGoneOrKept ==
    /\ [](pc = "summary" => ~progress_file.exists)
    /\ [][handler = "current" /\ pc' = "exited" => progress_file'.exists]_vars
    /\ [][pc = "load_try" /\ pc' = "register"
            => loaded' = progress_file.processed_urls]_vars

C10_SavedBeforeListed ==
    /\ marked \subseteq out_files
    /\ progress_file.exists =>
          \A u \in progress_file.processed_urls \cap reported_ok :
              \E k \in out_files : results[k] = u

\* the progress file lists a URL marked by the success branch
C10_Witness ==
    /\ progress_file.exists
    /\ progress_file.processed_urls \cap reported_ok # {}
    /\ pc = "loop"

\* the indexes a run from an empty processed set writes when every fetch and
\* every save succeeds: the first hit of each non-empty URL
FirstHits ==
    {k \in Items : ~NoUrl(results[k])
                   /\ \A j \in 1..(k - 1) : results[j] # results[k]}

\* C11: a batch that took nothing from a progress file and ran to its summary, all
\* fetches and saves succeeding, has written exactly the files of the first
\* hit of each URL, named by the index of the hit, and the output directory
\* holds exactly those files whatever such runs came before: a second run
\* overwrites them and adds or removes none.
C11_Idempotent ==
    pc = "summary" /\ faults = 0 /\ ~sig_in_loop /\ ~sig_at_load
        /\ loaded = {} /\ fetched_before = fetched
        => written = FirstHits /\ out_files = FirstHits

\* a second batch, started with no progress file after a first one has written
\* every file, is overwriting the files
C11_Witness ==
    /\ runs = 2
    /\ faults = 0
    /\ pc = "loop"
    /\ written = {1}
    /\ fetched_before = {1}
    /\ out_files = FirstHits

\* C20: a process that an unexpected exception ends exits with a status other
\* than zero; one that a KeyboardInterrupt ends at the top level exits with
\* status zero, and no running batch holds anything the progress file lacks;
\* a running batch is ended by an interrupt with status zero and with the
\* progress file holding the state of the batch.
C20_TopLevelExits ==
    /\ [][pc # "exited" /\ pc' = "exited" /\ raised' = "Exception"
            => exit_status' # 0]_vars
    /\ [][pc # "exited" /\ pc' = "exited" /\ raised' = "KeyboardInterrupt"
            => /\ exit_status' = 0
               /\ ~InBatch
               /\ processed_urls \subseteq progress_file'.processed_urls]_vars
    /\ [][InBatch /\ pc' = "exited"
            => /\ exit_status' = 0
               /\ progress_file' = ProgressData(processed_urls, saved_count)]_vars

\* an interrupt has ended a batch that had marked a URL: status zero, the
\* progress file on disk
C20_Witness ==
    /\ pc = "exited"
    /\ raised = "SystemExit"
    /\ sig_in_loop
    /\ exit_status = 0
    /\ progress_file.exists
    /\ progress_file.processed_urls # {}

\* C12: when a client with a credential exists and local extraction was not
\* requested, the hosted extraction is requested first (exactly once, before
\* anything local); the local path runs if and only if the hosted attempt
\* raised or returned no data, and then the call ends as the local path ends;
\* when the hosted attempt returns data the call returns it and the local path
\* never runs.
C12_HostedFirstLocalOnFailure ==
    /\ has_client /\ ~use_local /\ xpc # "call" => hosted_requests = 1
    /\ hosted_requests = 1 /\ xpc # "hosted"
          => (local_runs = 1 <=> hosted_reply \in {"empty", "raises"})
    /\ hosted_requests = 1 /\ xpc = "hosted" => local_runs = 0 /\ Len(responses) = 0
    /\ hosted_reply \in {"empty", "raises"} /\ xpc \in {"returned", "raised"}
          => via = "local" /\ local_runs = 1
    /\ hosted_reply = "data"
          => xpc = "returned" /\ via = "hosted" /\ local_runs = 0 /\ Len(responses) = 0

C12_Witness ==
    /\ has_client /\ ~use_local /\ hosted_requests = 1 /\ hosted_reply = "empty"
    /\ xpc = "returned" /\ via = "local" /\ local_runs = 1

\* C13: the local path issues at most max_retries GETs; a GET is repeated only
\* after a 5xx response, a connection error or a timeout, each time after the
\* same delay; when every allowed GET failed that way the call raises; a 403
\* or 404 (any status below 500) raises at once and no GET follows it.
C13_RetryOnlyTransient ==
    /\ Len(responses) <= max_retries
    /\ \A k \in 1..(Len(responses) - 1) : Retryable(responses[k])
    /\ xpc = "get" => /\ retry_count = Len(responses)
                      /\ slept = RetryDelay * Len(responses)
                      /\ \A k \in 1..Len(responses) : Retryable(responses[k])
    /\ Len(responses) > 0 /\ xpc # "get" => slept = RetryDelay * (Len(responses) - 1)
    /\ Len(responses) > 0 /\ Terminal(responses[Len(responses)])
          => xpc = "raised" /\ via = "local"
    /\ Len(responses) = max_retries /\ Retryable(responses[max_retries])
          => xpc = "raised" /\ via = "local"
    /\ xpc = "raised" /\ Len(responses) > 0 /\ Len(responses) < max_retries
          => ~Retryable(responses[Len(responses)])

C13_Witness ==
    /\ xpc = "raised" /\ Len(responses) = max_retries
    /\ responses[1].status = 503 /\ responses[2].exc = "Timeout"
    /\ responses[3].exc = "ConnectionError" /\ slept = 2 * RetryDelay

\* C14: the free search makes at most search_max_retries attempts against
\* the provider; a further attempt follows only an attempt that raised or one
\* that ended with no candidate at all; a call that returns hands back a
\* non-empty list, so a call that obtained no candidate ends raising; and every
\* call ends.
C14_SearchTerminates ==
    /\ [](attempts <= search_max_retries)
    /\ [][attempts' = attempts + 1 /\ attempts >= 1
            => \/ last_attempt = "error"
               \/ last_attempt = "completed" /\ raw_results = << >>]_vars
    /\ [](spc = "returned" => raw_results # << >> /\ found # << >>)
    /\ [][spc = "after" /\ raw_results = << >> => spc' = "raised"]_vars
    /\ <>(spc \in {"returned", "raised"})

C14_Witness ==
    /\ spc = "raised" /\ attempts = search_max_retries
    /\ raw_results = << >> /\ last_attempt = "completed"

C16_CjkLocale ==
    LET IsCJK(ch) == \/ 11904 <= ch /\ ch <= 40959     \* U+2E80..U+9FFF
                     \/ 44032 <= ch /\ ch <= 55215     \* U+AC00..U+D7AF
                     \/ 63744 <= ch /\ ch <= 64255     \* U+F900..U+FAFF
    IN  spc \in {"loop", "iterating", "after", "returned"}
            => (region = "cn-zh" <=> \E k \in 1..Len(query) : IsCJK(query[k]))

\* C16: the free search selects cn-zh exactly for the queries holding a
\* character of U+4E00..U+9FFF and wt-wt for every other query, a query in
\* kana included.
C16_ChineseLocale ==
    spc \in {"loop", "iterating", "after", "returned"}
        => /\ region \in {"cn-zh", "wt-wt"}
           /\ region = "cn-zh"
                 <=> \E k \in 1..Len(query) : 19968 <= query[k] /\ query[k] <= 40959
           /\ query = << 12363, 12394 >> => region = "wt-wt"
           /\ query = << 112, 121, 116, 104, 111, 110, 32, 116, 117, 116, 111, 114, 105, 97, 108 >> => region = "wt-wt"

\* 'Python 教程' gives cn-zh
C16_Witness ==
    /\ spc = "returned" /\ region = "cn-zh"
    /\ query = << 80, 121, 116, 104, 111, 110, 32, 25945, 31243 >>

\* C17: at every place that builds a file name, the fragment made from a
\* title or a query holds only alphanumerics, hyphens and underscores and is
\* at most 50 characters long; 'A/B: Test?' gives 'AB_Test'.
C17_SafeFragment ==
    site # "none" =>
        /\ Len(fragment) <= 50
        /\ \A k \in 1..Len(fragment) : IsAlnum(fragment[k]) \/ fragment[k] \in {45, 95}
        /\ given = << 65, 47, 66, 58, 32, 84, 101, 115, 116, 63 >>
              => fragment = << 65, 66, 95, 84, 101, 115, 116 >>

\* C18: with no API key in the environment, the article-extraction and search
\* features of the menu are carried out by the local extraction and the free
\* search: they are neither refused nor ended by the error of a missing key.
C18_Degrades ==
    cpc = "finished" /\ feature \in {"extract", "search"} /\ api_key = "unset"
        => /\ outcome # "refused"
           /\ message # "ValueError: API key needed"
           /\ feature = "extract" => local_runs = 1

C30_PastCheckHasKey ==
    cpc \in {"input", "call"} => api_key # "unset"

\* C21: a client built with a non-empty key the hosted API rejects is built
\* all the same; the rejection of the key is reported only by an operation
\* that has sent a request to the hosted API.
C21_InvalidKeyFailsAtCall ==
    /\ cpc = "call" /\ api_key = "invalid" => has_client
    /\ message = "ValueError: API key invalid"
          => /\ requests_sent >= 1
             /\ cpc \in {"finished", "menu"}
             /\ outcome = "error"

C21_Witness ==
    /\ cpc = "finished" /\ feature = "scrape" /\ api_key = "invalid"
    /\ has_client /\ requests_sent = 1
    /\ message = "ValueError: API key invalid"

\* C24: a failed hosted scrape is reported as one cause, chosen from the text
\* of the provider's error in a fixed order: unauthorized ("401" or
\* "unauthorized" in any case) before not found ("404") before timeout
\* ("timeout" in any case) before anything else; the first two are raised as
\* ValueError, the third as TimeoutError, the rest as RuntimeError.
C24_OneCauseByPrecedence ==
    cpc = "finished" /\ feature = "scrape" /\ error_text # << >> =>
        LET unauthorized == \/ Contains(error_text, << 52, 48, 49 >>)
                            \/ Contains(Lower(error_text), << 117, 110, 97, 117, 116, 104, 111, 114, 105, 122, 101, 100 >>)
            not_found == Contains(error_text, << 52, 48, 52 >>)
            timed_out == Contains(Lower(error_text), << 116, 105, 109, 101, 111, 117, 116 >>)
        IN  /\ outcome = "error"
            /\ unauthorized => message = "ValueError: API key invalid"
            /\ ~unauthorized /\ not_found => message = "ValueError: URL not reachable"
            /\ ~unauthorized /\ ~not_found /\ timed_out
                  => message = "TimeoutError: request timed out"
            /\ ~unauthorized /\ ~not_found /\ ~timed_out
                  => message = "RuntimeError: scrape failed"

\* the error "404 unauthorized" names two causes and is reported as the first
C24_Witness ==
    /\ cpc = "finished" /\ feature = "scrape"
    /\ error_text = << 52, 48, 52, 32, 117, 110, 97, 117, 116, 104, 111, 114, 105, 122, 101, 100 >>
    /\ message = "ValueError: API key invalid"

\* C22: the list _过滤搜索结果 returns holds no hit with an empty URL and no
\* two hits with the same URL, and each hit is the first item of the raw
\* list, in provider order, that has its URL.
C22_DistinctUrlsFirstWins ==
    spc = "filtered" =>
        /\ \A n \in 1..Len(found) : found[n].url # << >>
        /\ \A n1, n2 \in 1..Len(found) : n1 # n2 => found[n1].url # found[n2].url
        /\ \A n \in 1..Len(found) :
              \E k \in 1..Len(raw_results) :
                  /\ raw_results[k] = found[n]
                  /\ \A j \in 1..(k - 1) : raw_results[j].url # found[n].url

\* [no URL, http://a 'Python Guide', http://a 'Cooking'], limit 2: only the
\* first http://a is returned
C22_Witness ==
    /\ spc = "filtered" /\ limit = 2
    /\ Len(raw_results) = 3
    /\ raw_results[1] = NoUrlHit
    /\ raw_results[2].url = raw_results[3].url
    /\ raw_results[2] # raw_results[3]
    /\ found = << raw_results[2] >>

\* C23: the publish time is the value of the first selector of the fixed
\* list that has a tag with a non-empty value, and of the first such tag;
\* selectors after it change nothing; it is empty when no selector has one;
\* the value is written as YYYY-MM-DD HH:MM:SS when it parses as a date
\* ("2024-01-02T10:00:00Z" becomes "2024-01-02 10:00:00") and kept as it is
\* otherwise.
C23_FirstTimeWins ==
    tpc = "done" =>
        LET HasValue(k) == \E n \in 1..Len(time_tags[k]) : time_tags[k][n] # << >>
            First(k) == time_tags[k][CHOOSE n \in 1..Len(time_tags[k]) :
                            /\ time_tags[k][n] # << >>
                            /\ \A l \in 1..(n - 1) : time_tags[k][l] = << >>]
            selectors == 1..Len(TimeSelectors)
        IN  /\ Len(TimeSelectors) = 6
            /\ (\A k \in selectors : ~HasValue(k)) <=> publish_time = << >>
            /\ \A k \in selectors :
                  HasValue(k) /\ (\A j \in 1..(k - 1) : ~HasValue(j))
                      => /\ publish_time = FormatTime(First(k))
                         /\ First(k) = << 50, 48, 50, 52, 45, 48, 49, 45, 48, 50, 84, 49, 48, 58, 48, 48, 58, 48, 48, 90 >>
                               => publish_time = << 50, 48, 50, 52, 45, 48, 49, 45, 48, 50, 32, 49, 48, 58, 48, 48, 58, 48, 48 >>
                         /\ First(k) = << 115, 111, 111, 110 >> => publish_time = First(k)

\* published_time has one tag without content, modified_time has
\* "2024-01-02T10:00:00Z", publishdate has "2023-05-06": the second one wins
C23_Witness ==
    /\ tpc = "done"
    /\ time_tags[1] = << << >> >>
    /\ time_tags[2] = << << 50, 48, 50, 52, 45, 48, 49, 45, 48, 50, 84, 49, 48, 58, 48, 48, 58, 48, 48, 90 >> >>
    /\ time_tags[3] = << << >>, << 50, 48, 50, 51, 45, 48, 53, 45, 48, 54 >> >>
    /\ publish_time = << 50, 48, 50, 52, 45, 48, 49, 45, 48, 50, 32, 49, 48, 58, 48, 48, 58, 48, 48 >>

\* C26: the checkpoint file of a batch belongs to its query alone: no other
\* query leads to the same .progress_<safe_query>.json, so a run never loads
\* what a run of another query wrote. The queries are those get_user_input
\* can return: not empty, with no space at either end.
C26_OneQueryPerCheckpoint ==
    LET Typed(s) == s # << >> /\ s[1] # 32 /\ s[Len(s)] # 32
    IN  site = "batch_query" /\ Typed(given) =>
            \A other \in Texts :
                Typed(other) /\ other # given => Underscored(SafePart(other)) # fragment

\* C25: a batch has shown its summary, removed its progress file and gone back
\* to the menu: nothing that happens in the process afterwards, an interrupt
\* with the handler of the batch still registered in particular, writes the
\* progress file again, and the next run of the query starts with nothing
\* processed.
C25_CheckpointStaysGone ==
    /\ [][pc = "menu" /\ handler = "stale" /\ ~progress_file.exists
            => ~progress_file'.exists]_vars
    /\ [][pc = "menu" /\ handler = "stale" /\ ~progress_file.exists
            /\ runs' = runs + 1
            => pc' = "register" /\ processed_urls' = {}]_vars

\* C27: while a batch runs (its handler registered), the progress file, when
\* it exists, lists only URLs that processed_urls holds; and between two
\* items at most 4 of the items the run has saved have a URL the progress
\* file does not list.
C27_CheckpointBehindMemory ==
    /\ InBatch /\ progress_file.exists
          => progress_file.processed_urls \subseteq processed_urls
    /\ pc = "loop"
          => Cardinality({k \in marked :
                            ~(/\ progress_file.exists
                              /\ results[k] \in progress_file.processed_urls)})
                <= SaveEvery - 1

\* C28: the progress file never holds a saved_count above the number of its
\* processed URLs, and neither do the locals of a run; while a batch runs,
\* saved_count changes only in the success branch, after the file of the item
\* was written and its URL marked, and then by exactly one: a failed fetch,
\* a failed save and a skipped item leave it as it is.
C28_CountWithinProcessed ==
    /\ [](progress_file.exists
            => progress_file.saved_count <= Cardinality(progress_file.processed_urls))
    /\ [](saved_count <= Cardinality(processed_urls))
    /\ [][InBatch /\ InBatch' /\ saved_count' # saved_count
            => /\ pc = "marked" /\ i \in written /\ i \in marked
               /\ saved_count' = saved_count + 1]_vars
    /\ [][pc = "marked" /\ pc' \in {"loop", "sp_try"}
            => saved_count' = saved_count + 1]_vars

\* one item saved and one failed: the file counts 1 for 2 processed URLs
C28_Witness ==
    /\ pc = "loop"
    /\ progress_file.exists
    /\ progress_file.saved_count = 1
    /\ Cardinality(progress_file.processed_urls) = 2
    /\ failed_urls # {} /\ marked # {}

\* C29: in one run of a batch no item is written where an item of the run
\* was written before: an index is written at most once, and the file names
\* of two different indexes differ whatever the titles of the articles are.
C29_DistinctOutputPaths ==
    /\ [][pc' = "written" /\ pc # "written" => i \notin written]_vars
    /\ [](\A j, k \in written : j # k => OutputNames[j] \cap OutputNames[k] = {})

\* two items of the run are written, the second one just now
C29_Witness ==
    /\ pc = "written"
    /\ Cardinality(written) >= 2
    /\ i \in written
    /\ OutputNames[1] # {}
    /\ Filename(1, << 71, 117, 105, 100, 101 >>) = << 48, 48, 49, 95, 112, 121, 116, 104, 111, 110, 95, 51, 95, 71, 117, 105, 100, 101, 46, 109, 100 >>

TypeOK ==
    /\ progress_file \in [exists : BOOLEAN, processed_urls : SUBSET Urls,
                          saved_count : 0..Cardinality(Urls)]
    /\ out_files \subseteq Items
    /\ i \in 0..(NumItems + 1)
    /\ processed_urls \subseteq Urls
    /\ saved_count \in 0..Cardinality(Urls)
    /\ runs \in 0..MaxRuns
    /\ faults \in 0..MaxFaults

====
